---------------------------- MODULE Spec2Model ----------------------------
(***************************************************************************)
(* APES orchestration engine: the bounded worker pool, the DAG builder and *)
(* wave scheduler, the agent registry and spawner, and the learning loop.  *)
(*                                                                         *)
(* Numbers that are IEEE doubles in the source are kept as integers:       *)
(* confidence scores in thousandths (0.85 is 850), complexity scores in    *)
(* tenths, durations in milliseconds.                                      *)
(***************************************************************************)
EXTENDS Integers, Sequences, FiniteSets, TLC

\* ------------------------------------------------------------------------
\* Bounds of the model
\* ------------------------------------------------------------------------
MaxTasks == 3
MaxPoolSize == 2

IdSpace == 1..MaxTasks

Range(s) == {s[i] : i \in DOMAIN s}

VARIABLES
    maxWorkers,      \* WorkerPool.maxWorkers
    activeWorkers,   \* WorkerPool.activeWorkers
    queue,           \* WorkerPool.queue: resolvers of suspended callers, FIFO
    wakeups,         \* microtask queue: callers whose resolver was called, in call order
    phase,           \* position of each WorkerPool.execute call
    totalExecuted,   \* WorkerPool.stats.totalExecuted
    totalFailed,     \* WorkerPool.stats.totalFailed
    tasks,           \* decomposition.tasks
    nodes,           \* dag.nodes
    nodeOrder,       \* iteration order of the dag.nodes Map
    waves,           \* dag.waves
    waveIdx,         \* loop variable i of DAGScheduler.execute
    taskResult,      \* value of each wave promise once it settled
    allResults,      \* allResults of DAGScheduler.execute
    assignments,     \* allocation.assignments
    selected,        \* allocation.agents
    raw,             \* request: whether the input holds any non-blank character
    matched,         \* request: number of keywords of each intent in the input
    subtasks,        \* request: per fragment, whether its connector is a sequence marker
    riskHits,        \* request: number of risk keyword hits over all fragments
    intent,          \* pipeline.intent
    complexity,      \* pipeline.complexity
    confidence,      \* AgentRegistry: confidenceScore of each agent
    updateQueue,     \* LearningSystem.updateQueue
    performanceMemory, \* MemorySystem.performanceMemory
    skillEvolution,  \* MemorySystem.skillEvolution
    vectorMemory,    \* MemorySystem.vectorMemory
    evaluation,      \* pipeline.evaluation
    outcome,         \* the form Orchestrator.execute returned
    pipeline,        \* keys of the pipeline object, in the order they were set
    metrics,         \* metrics of the returned object
    context,         \* the context argument of Orchestrator.execute
    debugEnv,        \* whether process.env.DEBUG is set
    console,         \* what was written with console.log
    pc               \* position of the request

poolVars == <<maxWorkers, activeWorkers, queue, wakeups, phase, totalExecuted, totalFailed>>
dagVars == <<tasks, nodes, nodeOrder, waves, waveIdx, taskResult, allResults, assignments>>
reqVars == <<selected, raw, matched, subtasks, riskHits, intent, complexity>>
learnVars == <<updateQueue, performanceMemory, skillEvolution, vectorMemory>>
outVars == <<evaluation, outcome, pipeline, metrics>>
callVars == <<context, debugEnv>>
ctxVars == <<callVars, console>>
envVars == <<reqVars, confidence, learnVars, outVars, ctxVars>>
vars == <<poolVars, dagVars, envVars, pc>>

\* ------------------------------------------------------------------------
\* WorkerPool
\* ------------------------------------------------------------------------
Phases == {"idle", "waiting", "woken", "working", "resolved", "rejected"}

\* The synchronous part of WorkerPool.execute up to its first await, on a
\* pool state p = [active, queue, phase].
PoolEnter(p, j) ==
    IF p.active >= maxWorkers
      THEN [p EXCEPT !.queue = Append(@, j), !.phase[j] = "waiting"]
      ELSE [p EXCEPT !.active = @ + 1, !.phase[j] = "working"]

RECURSIVE PoolEnterAll(_, _)
PoolEnterAll(p, js) ==
    IF js = <<>> THEN p ELSE PoolEnterAll(PoolEnter(p, Head(js)), Tail(js))

PoolState == [active |-> activeWorkers, queue |-> queue, wakeups |-> wakeups, phase |-> phase]

\* A queue served from its newest end, queue.pop().
ProcessQueueLifo(p) ==
    IF Len(p.queue) > 0 /\ p.active < maxWorkers
      THEN [p EXCEPT !.queue = SubSeq(@, 1, Len(@) - 1),
                     !.wakeups = Append(@, p.queue[Len(p.queue)]),
                     !.phase[p.queue[Len(p.queue)]] = "woken"]
      ELSE p

\* WorkerPool.processQueue on a pool state: calling the resolver queues the
\* continuation of its caller behind the continuations already pending.
ProcessQueue(p) ==
    IF Len(p.queue) > 0 /\ p.active < maxWorkers
      THEN [p EXCEPT !.queue = Tail(@),
                     !.wakeups = Append(@, Head(p.queue)),
                     !.phase[Head(p.queue)] = "woken"]
      ELSE p

\* A finally block that gives the slot back and wakes nobody.
PoolReleaseNoWake(p, j, ok) ==
    [p EXCEPT !.active = @ - 1,
              !.phase[j] = IF ok THEN "resolved" ELSE "rejected"]

\* A release on the success path only.
PoolReleaseOnSuccess(p, j, ok) ==
    ProcessQueue([p EXCEPT !.active = IF ok THEN @ - 1 ELSE @,
                           !.phase[j] = IF ok THEN "resolved" ELSE "rejected"])

\* The finally block of WorkerPool.execute.
PoolRelease(p, j, ok) ==
    ProcessQueue([p EXCEPT !.active = @ - 1,
                           !.phase[j] = IF ok THEN "resolved" ELSE "rejected"])

SetPool(p) ==
    /\ activeWorkers' = p.active
    /\ queue' = p.queue
    /\ wakeups' = p.wakeups
    /\ phase' = p.phase

\* A caller submits a job.
Execute(j) ==
    /\ phase[j] = "idle"
    /\ SetPool(PoolEnter(PoolState, j))
    /\ UNCHANGED <<maxWorkers, totalExecuted, totalFailed>>

\* Statistics that count a rejected job as executed and as failed.
CountSettledTwice(stats, ok) ==
    [totalExecuted |-> stats.totalExecuted + 1,
     totalFailed |-> IF ok THEN stats.totalFailed ELSE stats.totalFailed + 1]

\* stats.totalExecuted++ after the await in the try block, stats.totalFailed++
\* in the catch block.
CountSettled(stats, ok) ==
    [totalExecuted |-> IF ok THEN stats.totalExecuted + 1 ELSE stats.totalExecuted,
     totalFailed |-> IF ok THEN stats.totalFailed ELSE stats.totalFailed + 1]

\* runWorker settled: statistics, then the finally block.
WorkerSettle(j, ok) ==
    /\ phase[j] = "working"
    /\ LET stats == CountSettled([totalExecuted |-> totalExecuted,
                                  totalFailed |-> totalFailed], ok)
       IN /\ totalExecuted' = stats.totalExecuted
          /\ totalFailed' = stats.totalFailed
    /\ SetPool(PoolRelease(PoolState, j, ok))
    /\ UNCHANGED maxWorkers

\* A suspended caller whose resolver was called continues after the await.
WaiterResume(j) ==
    /\ phase[j] = "woken"
    /\ wakeups # <<>>
    /\ j = Head(wakeups)
    /\ wakeups' = Tail(wakeups)
    /\ activeWorkers' = activeWorkers + 1
    /\ phase' = [phase EXCEPT ![j] = "working"]
    /\ UNCHANGED <<maxWorkers, queue, totalExecuted, totalFailed>>

InitPoolVars ==
    /\ maxWorkers \in 1..MaxPoolSize
    /\ activeWorkers = 0
    /\ queue = <<>>
    /\ wakeups = <<>>
    /\ phase = [j \in IdSpace |-> "idle"]
    /\ totalExecuted = 0
    /\ totalFailed = 0

\* ------------------------------------------------------------------------
\* AgentRegistry
\* ------------------------------------------------------------------------
\* The agents registered by initializeDefaults, in registration order.
AgentOrder ==
    << "researcher_v1", "planner_v1", "code_agent_v2", "code_reviewer_v1",
       "debugger_v1", "devops_agent_v1", "infra_agent_v1", "frontend_agent_v1",
       "designer_agent_v1", "test_agent_v1", "performance_agent_v1",
       "evaluator_agent_v1" >>

AgentIds == Range(AgentOrder)

AgentCluster ==
    [a \in AgentIds |->
        CASE a \in {"researcher_v1", "planner_v1"} -> "research"
          [] a \in {"code_agent_v2", "code_reviewer_v1", "debugger_v1"} -> "coding"
          [] a \in {"devops_agent_v1", "infra_agent_v1"} -> "devops"
          [] a \in {"frontend_agent_v1", "designer_agent_v1"} -> "uiux"
          [] a \in {"test_agent_v1", "performance_agent_v1"} -> "analysis"
          [] OTHER -> "evaluation"]

\* The clusters registered by initializeDefaults.
ClusterIds == {"research", "coding", "devops", "uiux", "analysis", "evaluation"}

\* cluster.agents after the registrations: registerAgent pushes the id on the
\* list of the agent's cluster when that cluster is registered.
ClusterAgents ==
    [c \in ClusterIds |->
        LET Member(a) == AgentCluster[a] = c IN SelectSeq(AgentOrder, Member)]

ComplexitySupported ==
    [a \in AgentIds |->
        CASE a \in {"researcher_v1", "code_agent_v2", "debugger_v1",
                    "frontend_agent_v1", "test_agent_v1"} -> {"simple", "medium", "complex"}
          [] a = "designer_agent_v1" -> {"simple", "medium"}
          [] a = "infra_agent_v1" -> {"complex"}
          [] OTHER -> {"medium", "complex"}]

\* Seeded confidenceScore, in thousandths.
SeedConfidence ==
    [a \in AgentIds |->
        CASE a = "researcher_v1" -> 850
          [] a = "planner_v1" -> 800
          [] a = "code_agent_v2" -> 870
          [] a = "code_reviewer_v1" -> 820
          [] a = "debugger_v1" -> 790
          [] a = "devops_agent_v1" -> 810
          [] a = "infra_agent_v1" -> 760
          [] a = "frontend_agent_v1" -> 840
          [] a = "designer_agent_v1" -> 780
          [] a = "test_agent_v1" -> 830
          [] a = "performance_agent_v1" -> 800
          [] OTHER -> 850]

\* Array.prototype.sort with the comparator (a, b) => key[b] - key[a]: a
\* stable sort, descending by key.
RECURSIVE InsertDesc(_, _, _)
InsertDesc(sorted, e, key) ==
    IF sorted = <<>> THEN <<e>>
    ELSE IF key[Head(sorted)] >= key[e]
           THEN <<Head(sorted)>> \o InsertDesc(Tail(sorted), e, key)
           ELSE <<e>> \o sorted

RECURSIVE SortDesc(_, _)
SortDesc(s, key) ==
    IF s = <<>> THEN <<>>
    ELSE InsertDesc(SortDesc(SubSeq(s, 1, Len(s) - 1), key), s[Len(s)], key)

\* findAgents({cluster, complexity}) as the spawner calls it.
FindAgents(cluster, level) ==
    LET Match(a) == AgentCluster[a] = cluster /\ level \in ComplexitySupported[a]
    IN SortDesc(SelectSeq(AgentOrder, Match), confidence)

\* ------------------------------------------------------------------------
\* IntentClassifier
\* ------------------------------------------------------------------------
\* The intent patterns in registration order.
IntentOrder == <<"code", "research", "devops", "design", "analysis", "planning">>
IntentTypes == Range(IntentOrder)

IntentCluster ==
    [t \in IntentTypes |->
        CASE t = "code" -> "coding"
          [] t = "design" -> "uiux"
          [] t = "devops" -> "devops"
          [] t = "analysis" -> "analysis"
          [] OTHER -> "research"]

\* Math.min(matched.length / 3, 1.0), in thirds.
FullMatch == 3
MatchConfidence(count) == IF count < FullMatch THEN count ELSE FullMatch

\* classify(parsed), from the number of keywords each pattern matched.
ClassifyIntent(m) ==
    LET Hit(t) == m[t] > 0
        conf == [t \in IntentTypes |-> MatchConfidence(m[t])]
        scores == SortDesc(SelectSeq(IntentOrder, Hit), conf)
    IN IF scores = <<>>
         THEN [type |-> "general", cluster |-> "research", secondary |-> <<>>]
         ELSE [type |-> scores[1], cluster |-> IntentCluster[scores[1]],
               secondary |-> Tail(scores)]

\* Orchestrator.log(context, stage, data)
Log(out, stage) ==
    IF context.renderer /\ debugEnv THEN Append(out, <<"stage", stage>>) ELSE out

Classify ==
    /\ pc = "parsed"
    /\ intent' = ClassifyIntent(matched)
    /\ pipeline' = Append(pipeline, "intent")
    /\ pc' = "classified"
    /\ console' = Log(console, "intent")
    /\ UNCHANGED <<poolVars, dagVars, selected, raw, matched, subtasks, riskHits,
                   complexity, confidence, learnVars, evaluation, outcome, metrics,
                   callVars>>

\* ------------------------------------------------------------------------
\* TaskDecomposer
\* ------------------------------------------------------------------------
\* Outcomes of randomUUID().slice(0, 8) for the tasks of one decomposition.
\* Ids are opaque, so only which tasks share an id matters: each id is one
\* already drawn or the least number not drawn yet.
IdDraws(n) ==
    {ids \in [1..n -> IdSpace] :
        \A i \in 1..n : \A v \in 1..(ids[i] - 1) : \E k \in 1..(i - 1) : ids[k] = v}

\* A loop that chains every task to the one before it, whatever its connector.
DecomposeTasksChained(subs, ids, it) ==
    [i \in DOMAIN subs |->
        [id |-> ids[i],
         index |-> i - 1,
         type |-> it.type,
         cluster |-> it.cluster,
         dependsOn |-> IF i > 1 THEN {ids[i - 1]} ELSE {}]]

\* The loop of decompose over the subtasks, for the drawn ids.
DecomposeTasks(subs, ids, it) ==
    [i \in DOMAIN subs |->
        [id |-> ids[i],
         index |-> i - 1,
         type |-> it.type,
         cluster |-> it.cluster,
         dependsOn |-> IF subs[i] /\ i > 1 THEN {ids[i - 1]} ELSE {}]]

Decompose ==
    /\ pc = "classified"
    /\ \E ids \in IdDraws(Len(subtasks)) : tasks' = DecomposeTasks(subtasks, ids, intent)
    /\ pipeline' = Append(pipeline, "decomposition")
    /\ pc' = "decomposed"
    /\ console' = Log(console, "decomposition")
    /\ UNCHANGED <<poolVars, nodes, nodeOrder, waves, waveIdx, taskResult, allResults,
                   assignments, reqVars, confidence, learnVars, evaluation, outcome,
                   metrics,
                   callVars>>

\* ------------------------------------------------------------------------
\* ComplexityScorer
\* ------------------------------------------------------------------------
SimpleMax == 30
MediumMax == 70
RiskStep == 2
RiskCap == 30

AgentRange ==
    [l \in {"simple", "medium", "complex"} |->
        CASE l = "simple" -> <<1, 2>>
          [] l = "medium" -> <<3, 5>>
          [] OTHER -> <<5, 10>>]

\* calculateRiskFactor, in tenths.
RiskFactor(hits) ==
    IF 10 + RiskStep * hits < RiskCap THEN 10 + RiskStep * hits ELSE RiskCap

SetSum(S, f) ==
    LET RECURSIVE Sum(_)
        Sum(T) == IF T = {} THEN 0
                  ELSE LET x == CHOOSE x \in T : TRUE IN f[x] + Sum(T \ {x})
    IN Sum(S)

SetMax(S) == CHOOSE x \in S : \A y \in S : y <= x

\* Math.round of the quotient num / den, for num >= 0 and den > 0.
RoundDiv(num, den) == (2 * num + den) \div (2 * den)

\* Math.round(subtaskCount * dependencyWeight * riskFactor * 10): with
\* dependencyWeight = 1 + deps / n the product is (n + deps) * risk, an
\* integer number of tenths.
Score10(ts, hits) ==
    LET deps == SetSum(DOMAIN ts, [i \in DOMAIN ts |-> Cardinality(ts[i].dependsOn)])
    IN (Len(ts) + deps) * RiskFactor(hits)

ScoreLevel(score10) ==
    IF score10 <= SimpleMax THEN "simple"
    ELSE IF score10 <= MediumMax THEN "medium"
    ELSE "complex"

\* Math.round(lo + min(score / 10, 1) * (hi - lo))
AgentCount(score10) ==
    LET r == AgentRange[ScoreLevel(score10)]
        norm == IF score10 < 100 THEN score10 ELSE 100
    IN RoundDiv(r[1] * 100 + norm * (r[2] - r[1]), 100)

\* calculateWaves: getLevel over the tasks in order, memoised by task id.
RECURSIVE TaskLevels(_, _, _)
TaskLevels(ts, i, levels) ==
    IF i > Len(ts) THEN levels
    ELSE IF ts[i].id \in DOMAIN levels THEN TaskLevels(ts, i + 1, levels)
    ELSE LET known == {d \in ts[i].dependsOn : d \in DOMAIN levels}
             lvl == IF ts[i].dependsOn = {} THEN 0
                    ELSE 1 + SetMax({levels[d] : d \in known})
         IN TaskLevels(ts, i + 1,
                [id \in DOMAIN levels \cup {ts[i].id} |->
                    IF id = ts[i].id THEN lvl ELSE levels[id]])

CalculateWaves(ts) ==
    LET levels == TaskLevels(ts, 1, <<>>)
    IN 1 + SetMax({0} \cup {levels[id] : id \in DOMAIN levels})

Score ==
    /\ pc = "decomposed"
    /\ complexity' = [score |-> Score10(tasks, riskHits),
                      level |-> ScoreLevel(Score10(tasks, riskHits)),
                      agentCount |-> AgentCount(Score10(tasks, riskHits)),
                      waves |-> CalculateWaves(tasks)]
    /\ pipeline' = Append(pipeline, "complexity")
    /\ pc' = "scored"
    /\ console' = Log(console, "complexity")
    /\ UNCHANGED <<poolVars, dagVars, selected, raw, matched, subtasks, riskHits, intent,
                   confidence, learnVars, evaluation, outcome, metrics,
                   callVars>>

\* ------------------------------------------------------------------------
\* AgentSpawner
\* ------------------------------------------------------------------------
RECURSIVE Concat(_)
Concat(ss) == IF ss = <<>> THEN <<>> ELSE Head(ss) \o Concat(Tail(ss))

\* A pool that keeps every candidate found, repeated or not.
KeepAll(s, acc) == acc \o s

\* The filter with the seen set: the first occurrence of each id is kept.
RECURSIVE Dedupe(_, _)
Dedupe(s, acc) ==
    IF s = <<>> THEN acc
    ELSE Dedupe(Tail(s), IF Head(s) \in Range(acc) THEN acc ELSE Append(acc, Head(s)))

Min(a, b) == IF a < b THEN a ELSE b
Max(a, b) == IF a > b THEN a ELSE b

\* Array.prototype.slice(0, n)
Take(s, n) == SubSeq(s, 1, Min(n, Len(s)))

MaxComplexAgents == 10

\* selectAgents(pool, complexity, tasks)
SelectAgents(pool, cx) ==
    LET count == Min(cx.agentCount, Len(pool))
    IN IF cx.level = "simple" THEN Take(pool, Max(1, count))
       ELSE IF cx.level = "medium" THEN Take(pool, count)
       ELSE Take(pool, Min(Len(pool), MaxComplexAgents))

\* assignToTask(task, selectedAgents, complexity)
AssignToTask(task, sel) ==
    LET SameCluster(a) == AgentCluster[a] = task.cluster
        matching == SelectSeq(sel, SameCluster)
    IN IF Len(matching) > 0 THEN matching ELSE Take(sel, 1)

\* The deduplicated pool of allocate: primary cluster first, then one
\* findAgents per secondary intent, whose type is passed as the cluster.
UniquePool(it, cx) ==
    LET primary == FindAgents(it.cluster, cx.level)
        secondary == Concat([k \in DOMAIN it.secondary |->
                                FindAgents(it.secondary[k], cx.level)])
    IN Dedupe(primary \o secondary, <<>>)

\* getStrategy(level)
GetStrategy(level) ==
    CASE level = "simple" -> "direct_execution"
      [] level = "medium" -> "parallel_pool"
      [] level = "complex" -> "dag_staged_waves"
      [] OTHER -> "direct_execution"

\* The assignments object: a later task with the same id replaces the entry.
Assignments(ts, sel) ==
    LET last(id) == CHOOSE i \in DOMAIN ts :
                        ts[i].id = id /\ \A k \in DOMAIN ts : ts[k].id = id => k <= i
    IN [id \in {ts[i].id : i \in DOMAIN ts} |-> AssignToTask(ts[last(id)], sel)]

Allocate ==
    /\ pc = "scored"
    /\ selected' = SelectAgents(UniquePool(intent, complexity), complexity)
    /\ assignments' = Assignments(tasks, selected')
    /\ pipeline' = Append(pipeline, "agents")
    /\ pc' = "allocated"
    /\ console' = Log(console, "agents")
    /\ UNCHANGED <<poolVars, tasks, nodes, nodeOrder, waves, waveIdx, taskResult,
                   allResults, raw, matched, subtasks, riskHits, intent, complexity,
                   confidence, learnVars, evaluation, outcome, metrics,
                   callVars>>

\* ------------------------------------------------------------------------
\* DAGScheduler.buildDAG
\* ------------------------------------------------------------------------
\* The keys of the nodes Map in insertion order: a key set twice keeps the
\* position of its first insertion.
RECURSIVE InsertionOrder(_, _)
InsertionOrder(ts, acc) ==
    IF ts = <<>> THEN acc
    ELSE InsertionOrder(Tail(ts),
            IF Head(ts).id \in Range(acc) THEN acc ELSE Append(acc, Head(ts).id))

\* The node map after the two loops of buildDAG: nodes.set replaces the value
\* of a key that is already present, so the last task with an id wins.
BuildNodes(ts) ==
    LET ids == {ts[i].id : i \in DOMAIN ts}
        last(id) == CHOOSE i \in DOMAIN ts :
                        /\ ts[i].id = id
                        /\ \A k \in DOMAIN ts : ts[k].id = id => k <= i
    IN [id \in ids |->
          [task |-> last(id),
           dependsOn |-> ts[last(id)].dependsOn,
           dependents |-> {ts[k].id : k \in {k \in DOMAIN ts : id \in ts[k].dependsOn}},
           status |-> "pending",
           result |-> "null"]]

\* Variants of depsResolved that a slip in the callback would produce.
DepsResolvedNone(node, completed) == TRUE
DepsResolvedSome(node, completed) ==
    node.dependsOn = {} \/ \E depId \in node.dependsOn : depId \in completed

\* depsResolved of computeWaves.
DepsResolved(node, completed) == \A depId \in node.dependsOn : depId \in completed

\* A loop that stops after its first round.
WavesRemainOnce(completed, nd) == completed = {} /\ DOMAIN nd # {}

\* The loop condition of computeWaves.
WavesRemain(completed, nd) == Cardinality(completed) < Cardinality(DOMAIN nd)

\* One round of computeWaves: the nodes pushed to the wave.
Frontier(order, nd, completed) ==
    LET Ready(id) == /\ id \notin completed
                     /\ nd[id].status = "pending"
                     /\ DepsResolved(nd[id], completed)
    IN SelectSeq(order, Ready)

\* computeWaves: the waves and the node map it leaves behind.
RECURSIVE ComputeWaves(_, _, _, _)
ComputeWaves(order, nd, completed, ws) ==
    IF ~WavesRemain(completed, nd) THEN [waves |-> ws, nodes |-> nd]
    ELSE LET wave == Frontier(order, nd, completed)
         IN IF Len(wave) = 0
              THEN [waves |-> ws, nodes |-> nd]
              ELSE ComputeWaves(order,
                       [id \in DOMAIN nd |->
                           IF id \in Range(wave)
                             THEN [nd[id] EXCEPT !.status = "scheduled"]
                             ELSE nd[id]],
                       completed \cup Range(wave),
                       Append(ws, wave))

BuildDAG ==
    /\ pc = "allocated"
    /\ LET order == InsertionOrder(tasks, <<>>)
           built == ComputeWaves(order, BuildNodes(tasks), {}, <<>>)
       IN /\ nodeOrder' = order
          /\ nodes' = built.nodes
          /\ waves' = built.waves
    /\ pc' = "built"
    /\ UNCHANGED <<poolVars, tasks, waveIdx, taskResult, allResults, assignments,
                   envVars>>

\* ------------------------------------------------------------------------
\* DAGScheduler.execute
\* ------------------------------------------------------------------------
Durations == {50, 200}

NoResult == [status |-> "none"]

AssignedAgentIds(id) == IF id \in DOMAIN assignments THEN assignments[id] ELSE <<>>

FirstAgent(id) ==
    IF Len(AssignedAgentIds(id)) > 0 THEN AssignedAgentIds(id)[1] ELSE "none"

\* The synchronous start of the wave callbacks: every node of the wave is
\* set to running and handed to pool.execute, in wave order.
MarkRunning(nd, wave) ==
    [id \in DOMAIN nd |->
        IF id \in Range(wave) THEN [nd[id] EXCEPT !.status = "running"] ELSE nd[id]]

\* A barrier that opens on the first settled promise (Promise.race).
WaveSettledAny(i) == \E id \in Range(waves[i + 1]) : taskResult[id] # NoResult

\* Promise.allSettled(wavePromises) has resolved.
WaveSettled(i) == \A id \in Range(waves[i + 1]) : taskResult[id] # NoResult

\* skipDependents(nodes, failedIds)
SkipDependents(nd, failedIds) ==
    [id \in DOMAIN nd |->
        IF /\ nd[id].status = "pending"
           /\ \E f \in failedIds : f \in DOMAIN nd /\ id \in nd[f].dependents
          THEN [nd[id] EXCEPT !.status = "skipped"]
          ELSE nd[id]]

\* A renderer that takes the first node off the wave it prints.
RenderWaveStartShift(out, i, wave) ==
    [console |-> Append(out, <<"wave", i + 1>>), wave |-> Tail(wave)]

\* renderWaveStart(renderer, waveIndex, wave): the descriptions of the wave
\* are joined and printed; wave.map leaves the wave as it is.
RenderWaveStart(out, i, wave) ==
    [console |-> Append(out, <<"wave", i + 1>>), wave |-> wave]

\* if (renderer) this.renderWaveStart(renderer, i, wave)
ShowWave(renderer, out, i, wave) ==
    IF renderer THEN RenderWaveStart(out, i, wave) ELSE [console |-> out, wave |-> wave]

\* Entry of execute for a context with or without a renderer, the console
\* apart: the first wave is dispatched, or the loop is not entered.
StartExecuteWith(renderer) ==
    /\ pc = "built"
    /\ waveIdx' = 0
    /\ IF Len(waves) = 0
         THEN /\ pc' = "executed"
              /\ UNCHANGED <<nodes, waves, activeWorkers, queue, wakeups, phase>>
         ELSE LET shown == ShowWave(renderer, console, 0, waves[1])
              IN /\ pc' = "executing"
                 /\ waves' = [waves EXCEPT ![1] = shown.wave]
                 /\ nodes' = MarkRunning(nodes, shown.wave)
                 /\ SetPool(PoolEnterAll(PoolState, shown.wave))
    /\ UNCHANGED <<maxWorkers, totalExecuted, totalFailed, tasks, nodeOrder,
                   taskResult, allResults, assignments, reqVars, confidence, learnVars,
                   outVars, callVars>>

StartExecute ==
    /\ StartExecuteWith(context.renderer)
    /\ console' = IF Len(waves) = 0 THEN console
                  ELSE ShowWave(context.renderer, console, 0, waves[1]).console

\* A callback that reports every settled task as completed.
WaveResultCompleted(id, ok, d, i) ==
    [taskId |-> id, status |-> "completed", duration |-> d,
     agentId |-> FirstAgent(id), wave |-> i]

\* The value the wave callback returns: from its try block when pool.execute
\* fulfilled, from its catch block when it rejected. The rejection reason is
\* an Error, so that error.message is a string.
WaveResult(id, ok, d, i) ==
    [taskId |-> id,
     status |-> IF ok THEN "completed" ELSE "failed",
     duration |-> IF ok THEN d ELSE 0,
     agentId |-> FirstAgent(id),
     wave |-> i]

\* The callbacks of a wave take startTime in the same synchronous pass of
\* wave.map, so a job that fulfils measures a duration no shorter than the
\* job of its wave that fulfilled before it.
ClockAdvanced(d) ==
    \A x \in Range(waves[waveIdx + 1]) :
        taskResult[x].status = "completed" => taskResult[x].duration <= d

\* pool.execute settled for node id and the wave callback ran to its return.
TaskSettle(id, ok, d) ==
    /\ pc = "executing"
    /\ ok => ClockAdvanced(d)
    /\ WorkerSettle(id, ok)
    /\ nodes' = [nodes EXCEPT ![id].status = IF ok THEN "completed" ELSE "failed",
                              ![id].result = IF ok THEN "output" ELSE "error"]
    /\ taskResult' = [taskResult EXCEPT ![id] = WaveResult(id, ok, d, waveIdx)]
    /\ UNCHANGED <<tasks, nodeOrder, waves, waveIdx, allResults, assignments, pc,
                   envVars>>

\* A caller suspended in waitForSlot continues.
SlotGranted(id) ==
    /\ pc = "executing"
    /\ WaiterResume(id)
    /\ UNCHANGED <<dagVars, envVars, pc>>

\* A collection that lists the wave from its last promise to its first.
CollectWaveReversed(results, wave, settled) ==
    results \o [k \in 1..Len(wave) |-> settled[wave[Len(wave) + 1 - k]]]

\* The loop over waveResults: allSettled keeps the order of wavePromises,
\* which is the order of the wave, whatever the order of settlement.
CollectWave(results, wave, settled) ==
    results \o [k \in 1..Len(wave) |-> settled[wave[k]]]

\* The continuation after allSettled: results are collected, dependents of
\* failed tasks are skipped, and the next wave is dispatched or execute returns.
WaveBarrierWith(renderer) ==
    /\ pc = "executing"
    /\ WaveSettled(waveIdx)
    /\ LET wave == waves[waveIdx + 1]
           failedIds == {id \in Range(wave) : taskResult[id].status = "failed"}
           skipped == IF failedIds # {} /\ waveIdx < Len(waves) - 1
                        THEN SkipDependents(nodes, failedIds)
                        ELSE nodes
       IN /\ allResults' = CollectWave(allResults, wave, taskResult)
          /\ waveIdx' = waveIdx + 1
          /\ IF waveIdx + 1 < Len(waves)
               THEN LET shown == ShowWave(renderer, console, waveIdx + 1, waves[waveIdx + 2])
                    IN /\ pc' = "executing"
                       /\ waves' = [waves EXCEPT ![waveIdx + 2] = shown.wave]
                       /\ nodes' = MarkRunning(skipped, shown.wave)
                       /\ SetPool(PoolEnterAll(PoolState, shown.wave))
               ELSE /\ pc' = "executed"
                    /\ nodes' = skipped
                    /\ UNCHANGED <<waves, activeWorkers, queue, wakeups, phase>>
    /\ UNCHANGED <<maxWorkers, totalExecuted, totalFailed, tasks, nodeOrder,
                   taskResult, assignments, reqVars, confidence, learnVars, outVars,
                   callVars>>

WaveBarrier ==
    /\ WaveBarrierWith(context.renderer)
    /\ console' = IF waveIdx + 1 < Len(waves)
                    THEN ShowWave(context.renderer, console, waveIdx + 1,
                                  waves[waveIdx + 2]).console
                    ELSE console

InitDagVars ==
    /\ nodes = <<>>
    /\ nodeOrder = <<>>
    /\ waves = <<>>
    /\ waveIdx = 0
    /\ taskResult = [id \in IdSpace |-> NoResult]
    /\ allResults = <<>>

\* ------------------------------------------------------------------------
\* ResultEvaluator
\* ------------------------------------------------------------------------
SpeedNorm == 10000
ErrorNorm == 5

CountStatus(results, st) == Cardinality({k \in DOMAIN results : results[k].status = st})

ResultDuration(r) == IF "duration" \in DOMAIN r THEN r.duration ELSE 0

\* evaluate(executionResult, decomposition): rates and quality in hundredths.
Evaluate(results) ==
    LET n == Len(results)
        completed == CountStatus(results, "completed")
        failed == CountStatus(results, "failed")
        total == SetSum(DOMAIN results, [k \in DOMAIN results |-> ResultDuration(results[k])])
        errors == failed
        den == SpeedNorm * n
        num == 60 * completed * SpeedNorm
               + 20 * Max(0, den - total)
               + (20 \div ErrorNorm) * Max(0, ErrorNorm - errors) * den
    IN [completed |-> completed,
        failed |-> failed,
        skipped |-> CountStatus(results, "skipped"),
        total |-> n,
        successRate |-> IF n > 0 THEN RoundDiv(100 * completed, n) ELSE 0,
        totalDuration |-> total,
        avgDuration |-> IF n > 0 THEN RoundDiv(total, n) ELSE 0,
        errors |-> errors,
        quality |-> IF n > 0 THEN RoundDiv(num, den)
                    ELSE 20 + (20 \div ErrorNorm) * Max(0, ErrorNorm - errors)]

\* ------------------------------------------------------------------------
\* MemorySystem
\* ------------------------------------------------------------------------
PerfCap == 1000
PerfKeep == 500

\* A log that is never cut.
RecordPerformanceUncapped(perf, entry) == Append(perf, entry)

\* A cut that keeps the oldest entries, slice(0, 500).
RecordPerformanceHead(perf, entry) ==
    LET pushed == Append(perf, entry)
    IN IF Len(pushed) > PerfCap THEN SubSeq(pushed, 1, PerfKeep) ELSE pushed

\* recordPerformance(entry)
RecordPerformance(perf, entry) ==
    LET pushed == Append(perf, entry)
    IN IF Len(pushed) > PerfCap
         THEN SubSeq(pushed, Len(pushed) - PerfKeep + 1, Len(pushed))
         ELSE pushed

\* getClusterPerformance(cluster).avgDuration, 0 standing for a null result
\* as well: the caller treats both alike.
ClusterAvgDuration(perf, cluster) ==
    LET entries == {k \in DOMAIN perf : perf[k].cluster = cluster}
    IN IF entries = {} THEN 0
       ELSE RoundDiv(SetSum(entries, [k \in DOMAIN perf |-> perf[k].duration]),
                     Cardinality(entries))

\* A ledger that pushes every pattern it is given.
RecordPatternPush(skills, key) == Append(skills, [pattern |-> key, appliedCount |-> 1])

\* recordPattern(pattern)
RecordPattern(skills, key) ==
    IF \E k \in DOMAIN skills : skills[k].pattern = key
      THEN [k \in DOMAIN skills |->
              IF skills[k].pattern = key
                THEN [skills[k] EXCEPT !.appliedCount = @ + 1]
                ELSE skills[k]]
      ELSE Append(skills, [pattern |-> key, appliedCount |-> 1])

\* ------------------------------------------------------------------------
\* LearningSystem
\* ------------------------------------------------------------------------
ConfidenceBoost == 20
ConfidencePenalty == 50
MinConfidence == 100
MaxConfidence == 1000
QualityThreshold == 80
FastThreshold == 100

\* allocation.agents.find(a => a.id === result.agentId)?.cluster
ClusterOf(agents, agentId) ==
    IF agentId \in Range(agents) THEN AgentCluster[agentId] ELSE "none"

\* recordPerformanceMetrics
RECURSIVE RecordAll(_, _, _, _)
RecordAll(perf, results, agents, level) ==
    IF results = <<>> THEN perf
    ELSE LET r == Head(results)
         IN RecordAll(RecordPerformance(perf,
                         [agentId |-> r.agentId,
                          taskId |-> r.taskId,
                          duration |-> ResultDuration(r),
                          success |-> r.status = "completed",
                          complexity |-> level,
                          cluster |-> ClusterOf(agents, r.agentId)]),
                      Tail(results), agents, level)

\* analyzePatterns
AnalyzePatterns(skills, it, level, ev) ==
    LET s1 == IF ev.quality > QualityThreshold
                THEN RecordPattern(skills, <<it.type, level>>)
                ELSE skills
    IN IF ev.avgDuration > 0 /\ ev.avgDuration < FastThreshold
         THEN RecordPattern(s1, <<"fast_execution", it.type>>)
         ELSE s1

\* A generator that does not skip the results without an agentId.
UpdateForAnyAgent(r, perf, agents) ==
    LET avg == ClusterAvgDuration(perf, ClusterOf(agents, r.agentId))
        clusterAvg == IF avg # 0 THEN avg ELSE r.duration
    IN IF r.status = "completed"
         THEN IF r.duration < clusterAvg
                THEN <<[agentId |-> r.agentId, delta |-> ConfidenceBoost]>>
                ELSE <<>>
       ELSE IF r.status = "failed"
         THEN <<[agentId |-> r.agentId, delta |-> 0 - ConfidencePenalty]>>
       ELSE <<>>

\* The update generateConfidenceUpdates pushes for one result, if any.
UpdateFor(r, perf, agents) ==
    LET avg == ClusterAvgDuration(perf, ClusterOf(agents, r.agentId))
        clusterAvg == IF avg # 0 THEN avg ELSE r.duration
    IN IF r.agentId = "none" THEN <<>>
       ELSE IF r.status = "completed"
         THEN IF r.duration < clusterAvg
                THEN <<[agentId |-> r.agentId, delta |-> ConfidenceBoost]>>
                ELSE <<>>
       ELSE IF r.status = "failed"
         THEN <<[agentId |-> r.agentId, delta |-> 0 - ConfidencePenalty]>>
       ELSE <<>>

\* generateConfidenceUpdates
ConfidenceUpdates(results, perf, agents) ==
    Concat([k \in DOMAIN results |-> UpdateFor(results[k], perf, agents)])

\* LearningSystem.update(executionData)
LearningUpdate(results, it, cx, agents, ev) ==
    LET perf == RecordAll(performanceMemory, results, agents, cx.level)
    IN /\ performanceMemory' = perf
       /\ skillEvolution' = AnalyzePatterns(skillEvolution, it, cx.level, ev)
       /\ updateQueue' = updateQueue \o ConfidenceUpdates(results, perf, agents)
       /\ vectorMemory' =
            IF ev.successRate > QualityThreshold
              THEN Append(vectorMemory,
                          [intent |-> it.type, complexity |-> cx.level,
                           agents |-> agents, quality |-> ev.quality])
              ELSE vectorMemory

\* A confidence update without its lower bound.
ClampConfidenceNoFloor(c) == IF c > MaxConfidence THEN MaxConfidence ELSE c

\* Math.max(minConfidence, Math.min(maxConfidence, c))
ClampConfidence(c) == Max(MinConfidence, Min(MaxConfidence, c))

\* The loop of applyUpdates over the queue.
RECURSIVE ApplyAll(_, _)
ApplyAll(conf, q) ==
    IF q = <<>> THEN conf
    ELSE ApplyAll(IF Head(q).agentId \in DOMAIN conf
                    THEN [conf EXCEPT ![Head(q).agentId] = ClampConfidence(@ + Head(q).delta)]
                    ELSE conf,
                  Tail(q))

\* A queue that survives the call.
QueueKept(q) == q

\* this.updateQueue = []
QueueCleared(q) == <<>>

\* Positions of a caller of the learning loop: "applied" right after
\* applyUpdates returned, "learning" otherwise.
LearnPcs == {"learning", "applied"}

\* LearningSystem.applyUpdates(registry)
ApplyUpdates ==
    /\ pc \in LearnPcs
    /\ confidence' = ApplyAll(confidence, updateQueue)
    /\ updateQueue' = QueueCleared(updateQueue)
    /\ pc' = "applied"
    /\ UNCHANGED <<poolVars, dagVars, reqVars, performanceMemory, skillEvolution,
                   vectorMemory, outVars, ctxVars>>

\* AgentRegistry.updateAgentMetrics(agentId, metrics), as far as it changes
\* the confidence. totalExecutions, avgExecutionTime and failureRate are
\* doubles that reach the confidence through one test only,
\* metrics.duration < agent.avgExecutionTime, taken after the moving average
\* absorbed the duration: below stands for a duration under the average,
\* which stays positive, so both outcomes of the test exist in every state.
RegistryPenalty == 50
RegistryBoost == 20
RegistryMin == 100
RegistryMax == 1000

UpdateAgentMetrics(agentId, failed, below) ==
    /\ pc \in LearnPcs
    /\ pc' = "learning"
    /\ confidence' =
         IF agentId \notin DOMAIN confidence THEN confidence
         ELSE IF ~failed /\ below
           THEN [confidence EXCEPT ![agentId] = Min(RegistryMax, @ + RegistryBoost)]
         ELSE IF failed
           THEN [confidence EXCEPT ![agentId] = Max(RegistryMin, @ - RegistryPenalty)]
         ELSE confidence
    /\ UNCHANGED <<poolVars, dagVars, reqVars, learnVars, outVars, ctxVars>>

\* ------------------------------------------------------------------------
\* Orchestrator.execute, stages 7 to 10
\* ------------------------------------------------------------------------
\* The keys of the metrics object; the elapsed time itself is not kept.
SuccessMetrics(sel, ev, cx) ==
    [duration |-> "elapsed",
     agentsUsed |-> Len(sel),
     tasksCompleted |-> ev.completed,
     tasksFailed |-> ev.failed,
     complexityLevel |-> cx.level]

\* An error form that reports task counts as well.
ErrorMetricsCounted == [duration |-> "elapsed", tasksFailed |-> 0]

\* metrics of the object the catch block returns
ErrorMetrics == [duration |-> "elapsed"]

Finish ==
    /\ pc = "executed"
    /\ evaluation' = Evaluate(allResults)
    /\ LearningUpdate(allResults, intent, complexity, selected, evaluation')
    /\ pipeline' = pipeline \o <<"execution", "evaluation">>
    /\ metrics' = SuccessMetrics(selected, evaluation', complexity)
    /\ outcome' = "success"
    /\ pc' = "returned"
    /\ console' = Log(console, "execution")
    /\ UNCHANGED <<poolVars, dagVars, reqVars, confidence, callVars>>

\* execute(input) with the default context {} and DEBUG unset.
NoContext == [renderer |-> FALSE, cancelled |-> FALSE]

InitCtxVars ==
    /\ context = NoContext
    /\ debugEnv = FALSE
    /\ console = <<>>

\* The registry, the learning system and the memory after construction.
InitStores ==
    /\ confidence = SeedConfidence
    /\ updateQueue = <<>>
    /\ performanceMemory = <<>>
    /\ skillEvolution = <<>>
    /\ vectorMemory = <<>>
    /\ evaluation = [total |-> 0]
    /\ outcome = "none"
    /\ pipeline = <<>>
    /\ metrics = <<>>

InitEnvVars == InitStores /\ InitCtxVars

NoRequest ==
    /\ raw = "text"
    /\ matched = [t \in IntentTypes |-> 0]
    /\ subtasks = <<>>
    /\ riskHits = 0
    /\ intent = [type |-> "general", cluster |-> "research", secondary |-> <<>>]
    /\ complexity = [score |-> 0, level |-> "simple", agentCount |-> 1, waves |-> 1]
    /\ selected = <<>>

\* ------------------------------------------------------------------------
\* Specification of the worker pool under arbitrary callers
\* ------------------------------------------------------------------------
InitPool ==
    /\ InitPoolVars
    /\ InitDagVars
    /\ InitEnvVars
    /\ NoRequest
    /\ tasks = <<>>
    /\ assignments = <<>>
    /\ pc = "pool"

Submit == \E j \in IdSpace : Execute(j) /\ UNCHANGED <<dagVars, envVars, pc>>
Settle ==
    \E j \in IdSpace, ok \in BOOLEAN :
        WorkerSettle(j, ok) /\ UNCHANGED <<dagVars, envVars, pc>>
Resume == \E j \in IdSpace : WaiterResume(j) /\ UNCHANGED <<dagVars, envVars, pc>>

NextPool == Submit \/ Settle \/ Resume

SpecPool == InitPool /\ [][NextPool]_vars

\* ------------------------------------------------------------------------
\* Specification of the scheduler on arbitrary task sets
\* ------------------------------------------------------------------------
\* Task lists with distinct ids 1..n whose dependsOn may name any id: cycles
\* and ids of no task included.
TaskSets ==
    UNION {[1..n -> SUBSET IdSpace] : n \in 1..MaxTasks}

InitSched ==
    /\ InitPoolVars
    /\ InitDagVars
    /\ InitEnvVars
    /\ raw = "text"
    /\ matched = [t \in IntentTypes |-> IF t = "code" THEN 1 ELSE 0]
    /\ subtasks = <<>>
    /\ riskHits = 0
    /\ intent = ClassifyIntent(matched)
    /\ complexity = [score |-> 0, level |-> "simple", agentCount |-> 1, waves |-> 1]
    /\ \E deps \in TaskSets :
          tasks = [i \in DOMAIN deps |-> [id |-> i, dependsOn |-> deps[i], cluster |-> "coding"]]
    /\ selected \in {<<>>, <<"code_agent_v2">>}
    /\ assignments = [id \in IdSpace |-> selected]
    /\ pc = "allocated"

Settled == \E id \in IdSpace, ok \in BOOLEAN, d \in Durations : TaskSettle(id, ok, d)
Granted == \E id \in IdSpace : SlotGranted(id)

NextSched == BuildDAG \/ StartExecute \/ Settled \/ Granted \/ WaveBarrier \/ Finish

SpecSched == InitSched /\ [][NextSched]_vars

\* ------------------------------------------------------------------------
\* Specification of the scheduler with workers that settle
\* ------------------------------------------------------------------------
\* Task lists as decompose builds them with distinct ids: every task depends
\* on the task before it or on nothing.
ChainSets ==
    UNION {{deps \in [1..n -> SUBSET IdSpace] :
               \A i \in 1..n : deps[i] = {} \/ (i > 1 /\ deps[i] = {i - 1})} :
           n \in 1..MaxTasks}

InitLive ==
    /\ InitPoolVars
    /\ InitDagVars
    /\ InitEnvVars
    /\ raw = "text"
    /\ matched = [t \in IntentTypes |-> IF t = "code" THEN 1 ELSE 0]
    /\ subtasks = <<>>
    /\ riskHits = 0
    /\ intent = ClassifyIntent(matched)
    /\ complexity = [score |-> 0, level |-> "simple", agentCount |-> 1, waves |-> 1]
    /\ \E deps \in ChainSets :
          tasks = [i \in DOMAIN deps |-> [id |-> i, dependsOn |-> deps[i], cluster |-> "coding"]]
    /\ selected = <<"code_agent_v2">>
    /\ assignments = [id \in IdSpace |-> selected]
    /\ pc = "allocated"

\* Every worker body settles, every continuation whose promise was resolved
\* runs, and the continuation of Promise.allSettled runs once the wave has
\* settled.
SpecLive ==
    /\ InitLive
    /\ [][NextSched]_vars
    /\ WF_vars(Settled)
    /\ WF_vars(Granted)
    /\ WF_vars(WaveBarrier)

\* ------------------------------------------------------------------------
\* Specification of one request through Orchestrator.execute
\* ------------------------------------------------------------------------
RiskLevels == {0, 2, 10}

\* The keywords "research OAuth then build API then deploy to production"
\* holds of each pattern: build and api; research and search; deploy; the
\* ui of build. Its three fragments are chained by then, and the last one
\* holds the risk keywords deploy and production.
OAuthMatched ==
    [t \in IntentTypes |->
        CASE t \in {"code", "research"} -> 2
          [] t \in {"devops", "design"} -> 1
          [] OTHER -> 0]

OAuthRequest ==
    /\ raw = "text"
    /\ matched = OAuthMatched
    /\ subtasks = <<FALSE, TRUE, TRUE>>
    /\ riskHits = 2

\* What the stages read from an input without a non-blank character: no
\* keyword matches, and splitIntoSubtasks falls back to the whole input as
\* one fragment with an empty connector.
BlankRequest(m, subs, hits) ==
    /\ \A t \in IntentTypes : m[t] = 0
    /\ subs = <<FALSE>>
    /\ hits = 0

\* Stage 1, parseInput: a string of any content is split and measured.
Parse ==
    /\ pc = "received"
    /\ pc' = "parsed"
    /\ UNCHANGED <<poolVars, dagVars, envVars>>

\* Requests that match at most one intent pattern.
SingleIntent ==
    {m \in [IntentTypes -> {0, 1}] : Cardinality({t \in IntentTypes : m[t] > 0}) <= 1}

Init ==
    /\ InitPoolVars
    /\ InitDagVars
    /\ InitEnvVars
    /\ tasks = <<>>
    /\ assignments = <<>>
    /\ selected = <<>>
    /\ raw \in {"blank", "text"}
    /\ matched \in SingleIntent \cup {OAuthMatched}
    /\ subtasks \in UNION {[1..n -> BOOLEAN] : n \in 1..MaxTasks}
    /\ riskHits \in RiskLevels
    /\ raw = "blank" => BlankRequest(matched, subtasks, riskHits)
    /\ intent = [type |-> "general", cluster |-> "research", secondary |-> <<>>]
    /\ complexity = [score |-> 0, level |-> "simple", agentCount |-> 1, waves |-> 1]
    /\ pc = "received"

NextFront == Classify \/ Decompose \/ Score \/ Allocate

Next == Parse \/ NextFront \/ BuildDAG \/ StartExecute \/ Settled \/ Granted \/ WaveBarrier \/ Finish

Spec == Init /\ [][Next]_vars

\* ------------------------------------------------------------------------
\* Specification of stages 1 to 5 for requests that match several patterns
\* ------------------------------------------------------------------------
MaxMatched == 2

\* Requests that hold one or two keywords of at most MaxMatched patterns.
SeveralIntents ==
    {m \in [IntentTypes -> 0..2] : Cardinality({t \in IntentTypes : m[t] > 0}) <= MaxMatched}

InitAlloc ==
    /\ InitPoolVars
    /\ InitDagVars
    /\ InitEnvVars
    /\ tasks = <<>>
    /\ assignments = <<>>
    /\ selected = <<>>
    /\ raw = "text"
    /\ matched \in SeveralIntents
    /\ subtasks \in UNION {[1..n -> BOOLEAN] : n \in 1..MaxTasks}
    /\ riskHits \in RiskLevels
    /\ intent = [type |-> "general", cluster |-> "research", secondary |-> <<>>]
    /\ complexity = [score |-> 0, level |-> "simple", agentCount |-> 1, waves |-> 1]
    /\ pc = "received"

NextAlloc == Parse \/ Classify \/ Decompose \/ Score \/ Allocate

SpecAlloc == InitAlloc /\ [][NextAlloc]_vars

\* ------------------------------------------------------------------------
\* Specification of a request whose context holds a renderer or is cancelled
\* ------------------------------------------------------------------------
\* The caller cancels the context it passed while stage 6 runs. No statement
\* of the orchestrator, the scheduler or the pool reads a cancellation from
\* the context.
Cancel ==
    /\ pc = "executing"
    /\ ~context.cancelled
    /\ context' = [context EXCEPT !.cancelled = TRUE]
    /\ UNCHANGED <<poolVars, dagVars, reqVars, confidence, learnVars, outVars,
                   debugEnv, console, pc>>

\* A request for code of one to MaxTasks fragments, executed with or without
\* a renderer in the context, with DEBUG set or not.
InitContext ==
    /\ InitPoolVars
    /\ InitDagVars
    /\ InitStores
    /\ tasks = <<>>
    /\ assignments = <<>>
    /\ selected = <<>>
    /\ raw = "text"
    /\ matched = [t \in IntentTypes |-> IF t = "code" THEN 1 ELSE 0]
    /\ subtasks \in UNION {[1..n -> BOOLEAN] : n \in 1..MaxTasks}
    /\ riskHits = 0
    /\ intent = [type |-> "general", cluster |-> "research", secondary |-> <<>>]
    /\ complexity = [score |-> 0, level |-> "simple", agentCount |-> 1, waves |-> 1]
    /\ context \in [renderer : BOOLEAN, cancelled : {FALSE}]
    /\ debugEnv \in BOOLEAN
    /\ console = <<>>
    /\ pc = "received"

NextContext == Next \/ Cancel

SpecContext == InitContext /\ [][NextContext]_vars

\* ------------------------------------------------------------------------
\* Specification of a request in which a stage may throw
\* ------------------------------------------------------------------------
\* The keys of pipeline in the order execute sets them.
StageKeys == <<"intent", "decomposition", "complexity", "agents", "execution", "evaluation">>

\* Positions between two stages, where the next stage can raise.
ThrowPoints == {"parsed", "classified", "decomposed", "scored", "allocated", "built"}

\* The stage entered next raises and the catch block of execute returns.
\* After stage 6, evaluated tells whether the evaluator returned (the error
\* comes from the aggregator) or raised itself.
StageThrows ==
    /\ \/ /\ pc \in ThrowPoints
          /\ UNCHANGED <<evaluation, pipeline, console>>
       \/ /\ pc = "executed"
          /\ \E evaluated \in BOOLEAN :
                IF evaluated
                  THEN /\ evaluation' = Evaluate(allResults)
                       /\ pipeline' = pipeline \o <<"execution", "evaluation">>
                       /\ console' = Log(console, "execution")
                  ELSE /\ pipeline' = Append(pipeline, "execution")
                       /\ console' = Log(console, "execution")
                       /\ UNCHANGED evaluation
    /\ outcome' = "error"
    /\ metrics' = ErrorMetrics
    /\ pc' = "returned"
    /\ UNCHANGED <<poolVars, dagVars, reqVars, confidence, learnVars, callVars>>

\* learning.update raises after done of its first three steps: the catch
\* block of execute returns, and what the steps wrote stays written.
LearningThrows ==
    /\ pc = "executed"
    /\ evaluation' = Evaluate(allResults)
    /\ pipeline' = pipeline \o <<"execution", "evaluation">>
    /\ \E done \in 0..3 :
         LET perf == RecordAll(performanceMemory, allResults, selected, complexity.level)
         IN /\ performanceMemory' = IF done >= 1 THEN perf ELSE performanceMemory
            /\ skillEvolution' =
                 IF done >= 2
                   THEN AnalyzePatterns(skillEvolution, intent, complexity.level, evaluation')
                   ELSE skillEvolution
            /\ updateQueue' =
                 IF done >= 3
                   THEN updateQueue \o ConfidenceUpdates(allResults, perf, selected)
                   ELSE updateQueue
    /\ UNCHANGED vectorMemory
    /\ outcome' = "error"
    /\ metrics' = ErrorMetrics
    /\ pc' = "returned"
    /\ console' = Log(console, "execution")
    /\ UNCHANGED <<poolVars, dagVars, reqVars, confidence, callVars>>

NextFail == Next \/ StageThrows \/ LearningThrows

SpecFail == Init /\ [][NextFail]_vars

\* ------------------------------------------------------------------------
\* Specification of the learning loop on the registry
\* ------------------------------------------------------------------------
\* The confidence of an agent depends on the updates addressed to it alone:
\* the calls below address the agent seeded highest and an id the registry
\* does not hold.
MaxPerfLog == 2

LearnAgents == {"code_agent_v2", "ghost_agent"}

\* Results a request can hand to LearningSystem.update.
LearnResults ==
    LET One == {[taskId |-> 1, status |-> "completed", duration |-> d,
                 agentId |-> a, wave |-> 0] : d \in Durations, a \in LearnAgents}
               \cup
               {[taskId |-> 1, status |-> "failed", duration |-> 0,
                 agentId |-> a, wave |-> 0] : a \in LearnAgents}
    IN UNION {[1..n -> One] : n \in 1..MaxPerfLog}

InitLearn ==
    /\ InitPoolVars
    /\ maxWorkers = 1
    /\ InitDagVars
    /\ InitEnvVars
    /\ NoRequest
    /\ tasks = <<>>
    /\ assignments = <<>>
    /\ pc = "learning"

MetricsUpdate ==
    \E a \in LearnAgents, failed \in BOOLEAN, below \in BOOLEAN :
        UpdateAgentMetrics(a, failed, below)

Learn ==
    /\ pc \in LearnPcs
    /\ pc' = "learning"
    /\ \E results \in LearnResults :
          /\ Len(performanceMemory) + Len(results) <= MaxPerfLog
          /\ LearningUpdate(results, intent, complexity, <<"code_agent_v2">>,
                            Evaluate(results))
    /\ UNCHANGED <<poolVars, dagVars, reqVars, confidence, outVars, ctxVars>>

NextLearn == MetricsUpdate \/ Learn \/ ApplyUpdates

SpecLearn == InitLearn /\ [][NextLearn]_vars

\* ------------------------------------------------------------------------
\* Specification of the memory system under arbitrary callers
\* ------------------------------------------------------------------------
MaxRecords == 1510
MaxPatternCalls == 4

\* The task id of the newest entry of the log, 0 for an empty log. Callers
\* number the task results they record 1, 2, 3, ... so that every entry of
\* the log is told from every other one.
Newest(perf) == IF perf = <<>> THEN 0 ELSE perf[Len(perf)].taskId

MemoryResult(n) ==
    [taskId |-> n, status |-> "completed", duration |-> 50,
     agentId |-> "code_agent_v2", wave |-> 0]

\* The entry recordPerformanceMetrics builds from MemoryResult(n).
MemoryEntry(n) ==
    [agentId |-> "code_agent_v2", taskId |-> n, duration |-> 50, success |-> TRUE,
     complexity |-> "simple", cluster |-> "coding"]

PatternKeys == {<<"code", "simple">>, <<"fast_execution", "code">>}

InitMemory ==
    /\ InitPoolVars
    /\ maxWorkers = 1
    /\ InitDagVars
    /\ InitEnvVars
    /\ NoRequest
    /\ tasks = <<>>
    /\ assignments = <<>>
    /\ pc = "memory"

\* MemorySystem.recordPerformance called by itself.
RecordOne ==
    /\ pc = "memory"
    /\ Newest(performanceMemory) < MaxRecords
    /\ performanceMemory' =
         RecordPerformance(performanceMemory, MemoryEntry(Newest(performanceMemory) + 1))
    /\ UNCHANGED <<poolVars, dagVars, reqVars, confidence, updateQueue, skillEvolution,
                   vectorMemory, outVars, ctxVars, pc>>

\* LearningSystem.recordPerformanceMetrics on the results of one request.
RecordMetrics ==
    /\ pc = "memory"
    /\ \E k \in 1..MaxTasks :
          /\ Newest(performanceMemory) + k <= MaxRecords
          /\ performanceMemory' =
               RecordAll(performanceMemory,
                         [i \in 1..k |-> MemoryResult(Newest(performanceMemory) + i)],
                         <<"code_agent_v2">>, "simple")
    /\ UNCHANGED <<poolVars, dagVars, reqVars, confidence, updateQueue, skillEvolution,
                   vectorMemory, outVars, ctxVars, pc>>

\* MemorySystem.recordPattern called by itself.
RecordPatternCall ==
    /\ pc = "memory"
    /\ SetSum(DOMAIN skillEvolution,
              [k \in DOMAIN skillEvolution |-> skillEvolution[k].appliedCount])
         < MaxPatternCalls
    /\ \E key \in PatternKeys : skillEvolution' = RecordPattern(skillEvolution, key)
    /\ UNCHANGED <<poolVars, dagVars, reqVars, confidence, updateQueue,
                   performanceMemory, vectorMemory, outVars, ctxVars, pc>>

NextMemory == RecordOne \/ RecordMetrics \/ RecordPatternCall

SpecMemory == InitMemory /\ [][NextMemory]_vars

\* ------------------------------------------------------------------------
\* Properties
\* ------------------------------------------------------------------------
DagBuilt == pc \in {"built", "executing", "executed", "returned"}

\* The wave (1-based) that holds node id, 0 when no wave does.
WaveOf(id) ==
    IF \E k \in DOMAIN waves : id \in Range(waves[k])
      THEN CHOOSE k \in DOMAIN waves : id \in Range(waves[k])
      ELSE 0

Dispatched(id) == phase[id] # "idle"
HasSettled(id) == taskResult[id] # NoResult

\* Every dependsOn id names a task and the dependency relation has no cycle:
\* the tasks can be ranked so that each dependency ranks strictly lower.
AcyclicTasks ==
    LET ids == {tasks[i].id : i \in DOMAIN tasks}
    IN /\ \A i, k \in DOMAIN tasks : tasks[i].id = tasks[k].id => i = k
       /\ \E rank \in [ids -> 1..Len(tasks)] :
             \A i \in DOMAIN tasks : \A d \in tasks[i].dependsOn :
                 d \in ids /\ rank[d] < rank[tasks[i].id]

\* C1: the pool never has more than maxWorkers jobs in flight, whatever the
\* interleaving of submissions, completions and waiter wake-ups.
C1_ActiveWithinMax == activeWorkers <= maxWorkers

\* C2: no task of a wave is dispatched before every task of every earlier
\* wave has settled.
C2_WaveBarrier ==
    \A id \in DOMAIN nodes :
        Dispatched(id) =>
            \A k \in 1..(WaveOf(id) - 1) : \A u \in Range(waves[k]) : HasSettled(u)

C2_Witness ==
    /\ pc = "executing"
    /\ waveIdx >= 1
    /\ Len(waves[1]) > maxWorkers
    /\ \E id \in Range(waves[waveIdx + 1]) : nodes[id].status = "running"

\* C3: a task with a failed dependency is never handed to the worker pool and
\* its result, once its wave was collected, is a skipped result of duration 0.
C3_FailedDependencySkips ==
    \A id \in DOMAIN nodes :
        (\E dep \in nodes[id].dependsOn :
            dep \in DOMAIN nodes /\ nodes[dep].status = "failed")
        => /\ ~Dispatched(id)
           /\ \A r \in Range(allResults) :
                  r.taskId = id => r.status = "skipped" /\ r.duration = 0

\* C4: while a node is running every node it depends on has settled.
C4_DepsSettledWhileRunning ==
    \A id \in DOMAIN nodes :
        nodes[id].status = "running" =>
            \A dep \in nodes[id].dependsOn :
                dep \in DOMAIN nodes /\ nodes[dep].status \in {"completed", "failed"}

C4_Witness ==
    \E id \in DOMAIN nodes :
        /\ nodes[id].status = "running"
        /\ Cardinality(nodes[id].dependsOn) >= 2
        /\ \E dep \in nodes[id].dependsOn : nodes[dep].status = "failed"

\* C5: for an acyclic task set the waves partition the node set and no wave
\* is empty.
C5_WavesPartition ==
    (DagBuilt /\ AcyclicTasks) =>
        LET at == {<<k, p>> \in (DOMAIN waves) \X (1..MaxTasks) : p <= Len(waves[k])}
            total == Cardinality(at)
        IN /\ total = Cardinality(DOMAIN nodes)
           /\ Cardinality(DOMAIN nodes) = Len(tasks)
           /\ \A id \in DOMAIN nodes :
                 Cardinality({q \in at : waves[q[1]][q[2]] = id}) = 1
           /\ \A k \in DOMAIN waves : Len(waves[k]) > 0

C5_Witness ==
    /\ DagBuilt
    /\ AcyclicTasks
    /\ Len(tasks) = MaxTasks
    /\ Len(waves) = 2

\* C6: every dependency of a node of wave i > 0 lies in an earlier wave.
C6_DepsInEarlierWaves ==
    \A k \in DOMAIN waves : \A id \in Range(waves[k]) :
        \A dep \in nodes[id].dependsOn :
            \E m \in 1..(k - 1) : dep \in Range(waves[m])

C6_Witness ==
    /\ DagBuilt
    /\ Len(waves) >= 2
    /\ \E id \in Range(waves[Len(waves)]) : Cardinality(nodes[id].dependsOn) >= 2

\* computeWaves left its loop on an empty frontier: some node is in no wave.
Stalled == DagBuilt /\ \E id \in DOMAIN nodes : WaveOf(id) = 0

\* C7: when computeWaves stops on an empty frontier with nodes remaining, no
\* task of the partial wave list is executed and the request returns the
\* error form.
C7_CycleFailsRequest ==
    Stalled =>
        /\ \A id \in DOMAIN nodes : ~Dispatched(id)
        /\ allResults = <<>>
        /\ pc = "returned" => outcome = "error"

Allocated == pc \notin {"received", "parsed", "classified", "decomposed", "scored"}

\* C8: after allocation every task id is a key of the assignments, mapped to
\* a list of at least one agent id.
C8_EveryTaskAssigned ==
    Allocated =>
        \A i \in DOMAIN tasks :
            /\ tasks[i].id \in DOMAIN assignments
            /\ Len(assignments[tasks[i].id]) > 0

\* C9: when no agent is selected, no task is handed to the worker pool and
\* the request returns the error form.
C9_NoAgentsFailsRequest ==
    (Allocated /\ selected = <<>>) =>
        /\ \A id \in IdSpace : ~Dispatched(id)
        /\ allResults = <<>>
        /\ pc = "returned" => outcome = "error"

\* C10: whatever sequence of updateAgentMetrics, LearningSystem.update and
\* applyUpdates calls follows the seeding of the registry, the confidence of
\* every agent stays between 0.1 and 1.0.
C10_ConfidenceInRange ==
    \A a \in AgentIds : confidence[a] >= 100 /\ confidence[a] <= 1000

C10_Witness ==
    /\ confidence["code_agent_v2"] = 100
    /\ performanceMemory # <<>>
    /\ \E k \in DOMAIN updateQueue :
          updateQueue[k].agentId = "code_agent_v2" /\ updateQueue[k].delta < 0

\* C11: when a request returns, an agent whose task failed in it has a lower
\* confidence in the registry than before the request, or is at the floor
\* 0.1, and an agent with no failed task has not lost confidence.
C11_FailureLowersConfidence ==
    (pc = "returned" /\ outcome = "success") =>
        \A a \in AgentIds :
            IF \E k \in DOMAIN allResults :
                   allResults[k].agentId = a /\ allResults[k].status = "failed"
              THEN confidence[a] < SeedConfidence[a] \/ confidence[a] = 100
              ELSE confidence[a] >= SeedConfidence[a]

Decomposed == pc \notin {"received", "parsed", "classified"}

\* C16: every dependsOn id of a decomposed task is the id of a task with a
\* strictly smaller index, and the graph the ids induce has no cycle.
C16_DependsOnEarlierTask ==
    Decomposed =>
        LET ids == {tasks[i].id : i \in DOMAIN tasks}
        IN /\ \A i \in DOMAIN tasks : \A d \in tasks[i].dependsOn :
                 \E k \in 1..(i - 1) : tasks[k].id = d
           /\ \E rank \in [ids -> 1..Len(tasks)] :
                 \A i \in DOMAIN tasks : \A d \in tasks[i].dependsOn :
                     d \in ids /\ rank[d] < rank[tasks[i].id]

\* C17: the task ids of one decomposition are pairwise distinct, so the DAG
\* has one node per task.
C17_TaskIdsDistinct ==
    /\ Decomposed => \A i, k \in DOMAIN tasks : tasks[i].id = tasks[k].id => i = k
    /\ DagBuilt => Cardinality(DOMAIN nodes) = Len(tasks)

\* C18: a request whose input is empty or blank sets no key of pipeline,
\* has no task decomposed, allocated or executed, and returns the error form.
C18_BlankInputParseError ==
    raw = "blank" =>
        /\ pipeline = <<>>
        /\ tasks = <<>>
        /\ assignments = <<>>
        /\ \A id \in IdSpace : ~Dispatched(id)
        /\ pc = "returned" => outcome = "error"

\* C12: applyUpdates leaves the update queue empty, and an applyUpdates call
\* that directly follows another one changes the confidence of no agent, so
\* no queued delta is applied twice.
C12_AppliedOnce ==
    [][pc' = "applied" =>
         /\ updateQueue' = <<>>
         /\ pc = "applied" => confidence' = confidence]_vars

C12_Witness ==
    /\ pc = "applied"
    /\ updateQueue = <<>>
    /\ \E k \in DOMAIN performanceMemory :
          performanceMemory[k].agentId = "code_agent_v2" /\ ~performanceMemory[k].success
    /\ confidence["code_agent_v2"] = SeedConfidence["code_agent_v2"] - ConfidencePenalty

\* C13: the performance log never holds more than 1000 entries.
C13_LogWithinCap == Len(performanceMemory) <= 1000

C13_Witness ==
    /\ Len(performanceMemory) = 1000
    /\ performanceMemory[1].taskId > 1

\* The log after the entries numbered n, n + 1, ..., n + k - 1 were recorded
\* one by one: an entry that makes the log longer than 1000 leaves the 500
\* newest entries, any other entry is appended.
RECURSIVE TailKept(_, _, _)
TailKept(log, n, k) ==
    IF k = 0 THEN log
    ELSE LET pushed == Append(log, MemoryEntry(n))
         IN TailKept(IF Len(pushed) > 1000
                       THEN [i \in 1..500 |-> pushed[Len(pushed) - 500 + i]]
                       ELSE pushed,
                     n + 1, k - 1)

PatternCount(skills, key) ==
    IF \E k \in DOMAIN skills : skills[k].pattern = key
      THEN skills[CHOOSE k \in DOMAIN skills : skills[k].pattern = key].appliedCount
      ELSE 0

\* C15: the ledger holds at most one entry per pattern key, and every
\* recording of a key raises the appliedCount of that key by one and leaves
\* the other keys alone, so a key recorded N times has appliedCount N.
C15_PatternCounted ==
    [][/\ \A i, k \in DOMAIN skillEvolution' :
             skillEvolution'[i].pattern = skillEvolution'[k].pattern => i = k
       /\ skillEvolution' # skillEvolution =>
             \E key \in PatternKeys :
                 /\ PatternCount(skillEvolution', key) = PatternCount(skillEvolution, key) + 1
                 /\ \A other \in PatternKeys \ {key} :
                        PatternCount(skillEvolution', other) = PatternCount(skillEvolution, other)]_vars

C15_Witness ==
    /\ pc = "memory"
    /\ Len(skillEvolution) = 2
    /\ \E k \in DOMAIN skillEvolution : skillEvolution[k].appliedCount = 3

\* C19: when a stage throws the request returns the error form: metrics
\* holds duration only, and pipeline holds the outputs of the stages that
\* completed, a prefix of intent, decomposition, complexity, agents,
\* execution, evaluation.
C19_ErrorFormKeepsPrefix ==
    (pc = "returned" /\ outcome = "error") =>
        /\ DOMAIN metrics = {"duration"}
        /\ Len(pipeline) <= Len(StageKeys)
        /\ \A k \in DOMAIN pipeline : pipeline[k] = StageKeys[k]
        /\ (Len(pipeline) >= 2) <=> (tasks # <<>>)
        /\ (Len(pipeline) >= 4) <=> (assignments # <<>>)
        /\ (Len(pipeline) >= 5) => (nodes # <<>> /\ waveIdx = Len(waves))
        /\ (allResults # <<>>) => (Len(pipeline) >= 5)
        /\ (Len(pipeline) = 6) <=> ("quality" \in DOMAIN evaluation)

C19_Witness ==
    /\ pc = "returned"
    /\ outcome = "error"
    /\ Len(pipeline) = 5
    /\ totalFailed >= 1

\* C20: worker errors do not abort the request: it returns the success form,
\* every task whose worker rejected has a failed result, and tasksFailed of
\* the metrics is the number of rejections the pool counted.
C20_WorkerErrorsAbsorbed ==
    pc = "returned" =>
        /\ outcome = "success"
        /\ \A id \in DOMAIN nodes :
               nodes[id].status = "failed" =>
                   \E k \in DOMAIN allResults :
                       allResults[k].taskId = id /\ allResults[k].status = "failed"
        /\ Cardinality({k \in DOMAIN allResults : allResults[k].status = "failed"})
             = totalFailed
        /\ metrics.tasksFailed = totalFailed

C20_Witness ==
    /\ pc = "returned"
    /\ outcome = "success"
    /\ totalFailed >= 2
    /\ metrics.tasksCompleted >= 1

\* The callers suspended in waitForSlot, oldest first: those whose resolver
\* was called already, then those still in the queue.
Line(w, q) == w \o q

Ahead(x, y, line) ==
    \E a, b \in DOMAIN line : a < b /\ line[a] = x /\ line[b] = y

\* C22: a caller that arrives while activeWorkers >= maxWorkers is suspended
\* behind the callers suspended before it, suspended callers keep their
\* order, and a suspended caller starts only when no caller suspended
\* before it is still suspended.
C22_WaitersFifo ==
    [][\A y \in IdSpace :
         /\ (phase[y] = "idle" /\ phase'[y] # "idle" /\ activeWorkers >= maxWorkers) =>
               /\ phase'[y] = "waiting"
               /\ Line(wakeups', queue') = Append(Line(wakeups, queue), y)
         /\ (phase[y] \in {"waiting", "woken"} /\ phase'[y] = "working") =>
               \A x \in IdSpace : ~Ahead(x, y, Line(wakeups, queue))
         /\ \A x \in IdSpace :
               (Ahead(x, y, Line(wakeups, queue))
                  /\ x \in Range(Line(wakeups', queue'))
                  /\ y \in Range(Line(wakeups', queue')))
               => /\ Ahead(x, y, Line(wakeups', queue'))
                  /\ y \in Range(wakeups') => x \in Range(wakeups')]_vars

C22_Witness ==
    /\ pc = "pool"
    /\ wakeups # <<>>
    /\ queue # <<>>
    /\ \E j \in IdSpace : phase[j] \in {"resolved", "rejected"}

\* C23: activeWorkers counts the jobs that entered the pool and have not
\* settled, so it is 0 once every submitted job has settled, whether its
\* worker resolved or rejected.
C23_ReleasedOnce ==
    activeWorkers = Cardinality({j \in IdSpace : phase[j] = "working"})

C23_Witness ==
    /\ pc = "pool"
    /\ activeWorkers = 0
    /\ \A j \in IdSpace : phase[j] \in {"resolved", "rejected"}
    /\ \E j \in IdSpace : phase[j] = "rejected"
    /\ \E j \in IdSpace : phase[j] = "resolved"

\* The ids of the first m waves, wave by wave.
WaveIds(m) == Concat([k \in 1..m |-> waves[k]])

\* The least index of a task with the given id.
FirstIndex(id) == CHOOSE i \in DOMAIN tasks :
                      tasks[i].id = id /\ \A k \in DOMAIN tasks : tasks[k].id = id => i <= k

\* C24: the results list the collected waves one after the other, each wave
\* in task index order, whatever the order in which its tasks settled.
C24_ResultsInDispatchOrder ==
    pc \in {"executing", "executed", "returned"} =>
        /\ Len(allResults) = Len(WaveIds(waveIdx))
        /\ \A k \in DOMAIN allResults :
               /\ allResults[k].taskId = WaveIds(waveIdx)[k]
               /\ allResults[k].wave = WaveOf(allResults[k].taskId) - 1
        /\ \A i, k \in DOMAIN allResults :
               (i < k /\ allResults[i].wave = allResults[k].wave)
                   => FirstIndex(allResults[i].taskId) < FirstIndex(allResults[k].taskId)

C24_Witness ==
    /\ pc = "executed"
    /\ Len(waves) = 2
    /\ Len(waves[1]) = 2
    /\ allResults[1].status = "failed"
    /\ allResults[2].status = "completed"
    /\ Len(allResults) = 3

\* C25: the results of a wave are listed in the order their tasks settled.
\* The durations of the fulfilled tasks of a wave grow with the order of
\* settlement, so they never decrease along the results of the wave.
C25_ResultsInSettleOrder ==
    \A i, k \in DOMAIN allResults :
        (/\ i < k
         /\ allResults[i].wave = allResults[k].wave
         /\ allResults[i].status = "completed"
         /\ allResults[k].status = "completed")
            => allResults[i].duration <= allResults[k].duration

\* C21: once stage 9 has run, whether or not learning.update raised, the
\* request returns the success form with the full metrics.
C21_LearningFailureSwallowed ==
    (pc = "returned" /\ performanceMemory # <<>>) =>
        /\ outcome = "success"
        /\ metrics = SuccessMetrics(selected, evaluation, complexity)

\* C28: the request "research OAuth then build API then deploy to
\* production" scores complex, and its strategy is dag_staged_waves.
C28_OAuthScoresComplex ==
    (OAuthRequest /\ pc \notin {"received", "parsed", "classified", "decomposed"}) =>
        /\ complexity.level = "complex"
        /\ GetStrategy(complexity.level) = "dag_staged_waves"

\* The stages 2 to 5 of a run of the same request in which every task id
\* drawn is new.
PlanIntent == ClassifyIntent(matched)
PlanTasks == DecomposeTasks(subtasks, [i \in DOMAIN subtasks |-> i], PlanIntent)
PlanComplexity ==
    [score |-> Score10(PlanTasks, riskHits),
     level |-> ScoreLevel(Score10(PlanTasks, riskHits)),
     agentCount |-> AgentCount(Score10(PlanTasks, riskHits)),
     waves |-> CalculateWaves(PlanTasks)]
PlanSelected == SelectAgents(UniquePool(PlanIntent, PlanComplexity), PlanComplexity)

\* The indices of the tasks whose id is among the dependencies of task i.
DepIndices(ts, i) == {k \in DOMAIN ts : ts[k].id \in ts[i].dependsOn}

\* C26: every run of a request plans as the run above does: the same intent,
\* the same tasks and dependencies once ids are matched by position, the
\* same complexity and the same agents for each task.
C26_PlanningDeterministic ==
    pc \notin {"received", "parsed", "classified", "decomposed", "scored"} =>
        /\ intent = PlanIntent
        /\ Len(tasks) = Len(PlanTasks)
        /\ \A i \in DOMAIN tasks :
               /\ tasks[i].index = PlanTasks[i].index
               /\ tasks[i].type = PlanTasks[i].type
               /\ tasks[i].cluster = PlanTasks[i].cluster
               /\ DepIndices(tasks, i) = DepIndices(PlanTasks, i)
               /\ assignments[tasks[i].id] = Assignments(PlanTasks, PlanSelected)[i]
        /\ complexity = PlanComplexity
        /\ selected = PlanSelected

\* C30: the agents allocate returns hold no id twice, and those of the
\* primary intent's cluster come before all the others.
C30_AgentsDistinctPrimaryFirst ==
    Allocated =>
        /\ \A i, k \in DOMAIN selected : selected[i] = selected[k] => i = k
        /\ \A i, k \in DOMAIN selected :
               (i < k /\ AgentCluster[selected[k]] = intent.cluster)
                   => AgentCluster[selected[i]] = intent.cluster

C30_Witness ==
    /\ pc = "allocated"
    /\ intent.type = "planning"
    /\ intent.secondary = <<"research">>
    /\ Len(selected) >= 2

\* The result of a request as its stages compute it from the request and
\* from what the workers returned, the context apart.
ResultWithoutContext ==
    /\ waves = ComputeWaves(nodeOrder, BuildNodes(tasks), {}, <<>>).waves
    /\ Len(allResults) = Len(WaveIds(Len(waves)))
    /\ pipeline = StageKeys
    /\ evaluation = Evaluate(allResults)
    /\ metrics = SuccessMetrics(selected, evaluation, complexity)
    /\ outcome = "success"
    /\ confidence = SeedConfidence
    /\ performanceMemory = RecordAll(<<>>, allResults, selected, complexity.level)
    /\ updateQueue = ConfidenceUpdates(allResults, performanceMemory, selected)

\* C27: with a renderer in the context, every step of the scheduler is the
\* step it takes without one, and the request returns the result computed
\* from the request and the workers alone: the renderer adds console lines.
C27_RendererLeavesResult ==
    /\ [][context.renderer =>
            /\ StartExecute => StartExecuteWith(FALSE)
            /\ WaveBarrier => WaveBarrierWith(FALSE)]_vars
    /\ [](pc = "returned" => ResultWithoutContext)

C27_Witness ==
    /\ pc = "returned"
    /\ context.renderer
    /\ debugEnv
    /\ Len(waves) = 2
    /\ \E k \in DOMAIN console : console[k] = <<"wave", 2>>
    /\ \E k \in DOMAIN console : console[k] = <<"stage", "execution">>
    /\ \E k \in DOMAIN allResults : allResults[k].status = "failed"

\* C29: once the context is cancelled during stage 6, every job that settles
\* settles as failed and no task is dispatched any more.
C29_CancelStopsWaves ==
    [][(context.cancelled /\ pc = "executing") =>
          /\ \A id \in IdSpace :
                 (taskResult[id] = NoResult /\ taskResult'[id] # NoResult)
                     => taskResult'[id].status = "failed"
          /\ \A id \in IdSpace : phase[id] = "idle" => phase'[id] = "idle"]_vars

\* C31: the registry holds six clusters and eleven agents, and every agent
\* is on the member list of exactly one cluster.
C31_SixClustersElevenAgents ==
    /\ Cardinality(ClusterIds) = 6
    /\ Cardinality(DOMAIN confidence) = 11
    /\ \A a \in DOMAIN confidence :
           Cardinality({c \in ClusterIds : a \in Range(ClusterAgents[c])}) = 1

\* For every secondary intent, the agents of the cluster of that intent that
\* support the level.
SecondaryByCluster(it, cx) ==
    Concat([k \in DOMAIN it.secondary |->
               FindAgents(IntentCluster[it.secondary[k]], cx.level)])

\* C32: the agents are selected from the pool made of the primary cluster's
\* agents followed, for every secondary intent, by the agents of that
\* intent's cluster that support the level.
C32_SecondaryPoolByCluster ==
    Allocated =>
        selected = SelectAgents(Dedupe(FindAgents(intent.cluster, complexity.level)
                                         \o SecondaryByCluster(intent, complexity), <<>>),
                                complexity)

\* The status changes the data model allows.
AllowedTransitions ==
    {<<"pending", "running">>, <<"running", "completed">>, <<"running", "failed">>,
     <<"pending", "scheduled">>, <<"pending", "skipped">>}

\* C33: the status of a node changes along the allowed transitions only:
\* running is entered from pending, and completed, failed and skipped are
\* never left.
C33_StatusTransitions ==
    [][\A id \in DOMAIN nodes \cap DOMAIN nodes' :
          nodes[id].status # nodes'[id].status
              => <<nodes[id].status, nodes'[id].status>> \in AllowedTransitions]_vars

\* C34: a task depends on the task just before it, and on nothing else, when
\* the connector of its fragment is a sequence marker and a task precedes
\* it; otherwise it depends on nothing. No task has two dependencies and
\* the first has none.
C34_DependsOnPrevious ==
    Decomposed =>
        /\ Len(tasks) = Len(subtasks)
        /\ \A i \in DOMAIN tasks :
               /\ tasks[i].dependsOn =
                      IF subtasks[i] /\ i > 1 THEN {tasks[i - 1].id} ELSE {}
               /\ Cardinality(tasks[i].dependsOn) <= 1
        /\ tasks[1].dependsOn = {}

C34_Witness ==
    /\ pc = "decomposed"
    /\ subtasks = <<TRUE, TRUE, FALSE>>
    /\ tasks[2].dependsOn = {tasks[1].id}
    /\ tasks[3].dependsOn = {}
    /\ tasks[1].id # tasks[2].id

\* The number of updates of the queue for an agent with a delta.
QueuedFor(a, delta) ==
    Cardinality({k \in DOMAIN updateQueue :
                    updateQueue[k].agentId = a /\ updateQueue[k].delta = delta})

\* The results of an agent with a status.
ResultsOf(a, status) ==
    {k \in DOMAIN allResults : allResults[k].agentId = a /\ allResults[k].status = status}

\* The average duration memory reports for the cluster of an agent.
ClusterAverage(a) == ClusterAvgDuration(performanceMemory, ClusterOf(selected, a))

\* C35: after the update of a request the queue holds, for every agent, one
\* penalty per failed result of the agent and one boost per completed result
\* of the agent whose duration is below the cluster average, and nothing
\* else: no update names a result without an agentId.
C35_OneDeltaPerResult ==
    (pc = "returned" /\ outcome = "success") =>
        /\ \A k \in DOMAIN updateQueue :
               /\ updateQueue[k].agentId \in AgentIds
               /\ updateQueue[k].delta \in {ConfidenceBoost, 0 - ConfidencePenalty}
        /\ \A a \in AgentIds :
               /\ QueuedFor(a, 0 - ConfidencePenalty) = Cardinality(ResultsOf(a, "failed"))
               /\ QueuedFor(a, ConfidenceBoost) =
                    Cardinality({k \in ResultsOf(a, "completed") :
                                    allResults[k].duration < ClusterAverage(a)})

C35_Witness ==
    /\ pc = "returned"
    /\ outcome = "success"
    /\ Len(allResults) = 3
    /\ \E k \in DOMAIN updateQueue : updateQueue[k].delta = ConfidenceBoost
    /\ \E k \in DOMAIN updateQueue : updateQueue[k].delta = 0 - ConfidencePenalty
    /\ Len(updateQueue) = 2

\* C36: the first request of a cluster, which finds no performance history,
\* enqueues no boost, whatever the durations of its tasks.
C36_NoBoostWithoutHistory ==
    (pc = "returned" /\ outcome = "success") =>
        \A k \in DOMAIN updateQueue : updateQueue[k].delta # ConfidenceBoost

\* The calls of WorkerPool.execute in a phase.
InPhase(ps) == Cardinality({j \in IdSpace : phase[j] \in ps})

\* C37: totalExecuted is the number of jobs whose worker resolved and
\* totalFailed the number whose worker rejected; with the jobs in flight and
\* the suspended callers they add up to the submissions.
C37_StatsCountSettledOnce ==
    /\ totalExecuted = InPhase({"resolved"})
    /\ totalFailed = InPhase({"rejected"})
    /\ InPhase(Phases \ {"idle"})
         = totalExecuted + totalFailed + activeWorkers + InPhase({"waiting", "woken"})

C37_Witness ==
    /\ pc = "pool"
    /\ totalFailed = 1
    /\ activeWorkers = 1
    /\ queue # <<>>

\* C38: the wave count of the complexity score is the number of waves
\* buildDAG builds, which execute reports; a decomposition without
\* dependencies has one wave.
C38_WaveCountsAgree ==
    DagBuilt =>
        /\ complexity.waves = Len(waves)
        /\ (\A i \in DOMAIN tasks : tasks[i].dependsOn = {}) => Len(waves) = 1

\* C40: when execute has returned, the results hold one entry for each node:
\* as many entries as nodes, no task id twice, and no node is left pending,
\* scheduled or running.
C40_OneResultPerNode ==
    pc \in {"executed", "returned"} =>
        /\ Len(allResults) = Cardinality(DOMAIN nodes)
        /\ \A i, k \in DOMAIN allResults :
               allResults[i].taskId = allResults[k].taskId => i = k
        /\ \A id \in DOMAIN nodes :
               nodes[id].status \notin {"pending", "scheduled", "running"}

\* C39: every job handed to the pool starts and settles, no caller stays
\* suspended, and execute returns, also for waves of more tasks than the
\* pool has workers.
C39_EveryJobSettles ==
    /\ \A j \in IdSpace :
          (phase[j] # "idle") ~> (phase[j] \in {"resolved", "rejected"} /\ HasSettled(j))
    /\ \A j \in IdSpace : (phase[j] = "waiting") ~> (phase[j] = "working")
    /\ (pc = "executing") ~> (pc = "executed")

C39_Witness ==
    /\ pc = "executed"
    /\ maxWorkers = 1
    /\ Len(waves) = 1
    /\ Len(waves[1]) = MaxTasks
    /\ totalFailed = 1
    /\ totalExecuted = MaxTasks - 1

=============================================================================
